---- MODULE Spec2Model ----
(***************************************************************************)
(* athenacli: Athena::query (src/src/athena/mod.rs) as a state machine.    *)
(* One call of query: submit (start_query_execution), the status poll loop *)
(* (get_query_execution) and the result loop (get_query_results).  The     *)
(* remote service is the environment: every response is chosen by \E from  *)
(* the shapes the rusoto types allow (every field an Option).              *)
(***************************************************************************)
EXTENDS Integers, Sequences, FiniteSets, TLC

\* ---------------------------------------------------------------- bounds
\* QUEUED/RUNNING responses the service gives before it has to end the poll.
MaxNonTerminal == 2
\* Result pages the service serves for one execution.
MaxPages == 2
\* Rows of one result set, over all its pages, header row included.
MaxRows == 3
\* Statements of one batch handed to run().
MaxStatements == 2
\* The same three limits for a query that run() calls as one of a batch.
MaxRunNonTerminal == 0
MaxRunPages == 1
MaxRunRows == 2

\* ------------------------------------------------------- program constants
\* `if err_count > 5` (mod.rs:97)
RetryBudget == 5
\* `Duration::from_millis(250)` (mod.rs:102)
RetryDelayMs == 250
\* `Duration::from_secs(1)` (mod.rs:171), in milliseconds
PollDelayMs == 1000
\* `err_count = 0u8` (mod.rs:88): the counter is 8 bits wide
U8Modulus == 256
\* `.skip(1)` (mod.rs:200)
HeaderRows == 1

\* ------------------------------------------------------------- Option<T>
None == <<>>
Some(v) == <<v>>
IsSome(o) == o /= <<>>
Unwrap(o) == o[1]
Opt(S) == {None} \cup {Some(v) : v \in S}

\* ------------------------------------------------- the service's vocabulary
SubmitIds == {"q-1"}
BodyIds == {"q-1", "q-2"}
\* uuid::Uuid::new_v4(): the n-th uuid the process draws; no two are equal.
Uuids == <<"u-1", "u-2", "u-3", "u-4", "u-5">>
\* The statement lists of args.command / the parsed file: one list repeats
\* the same SQL text, the other has a different text per statement.
StatementLists ==
    {<<"SELECT 1", "SELECT 1", "SELECT 1", "SELECT 1">>,
     <<"SELECT 1", "SELECT 2", "SELECT 3", "SELECT 4">>}
\* A batch is empty or has MaxStatements statements.
Batches == {SubSeq(b, 1, n) : b \in StatementLists, n \in {0, MaxStatements}}
States == {"QUEUED", "RUNNING", "SUCCEEDED", "FAILED", "CANCELLED", "BOGUS"}
Reasons == {"X", "Y"}
\* Continuation tokens: the page served as the n-th carries the n-th token.
Tokens == <<"T1", "T2", "T3", "T4">>
\* column_info: a Vec<ColumnInfo>; only the name of a ColumnInfo is read.
ColumnLists ==
    {<<[name |-> "id"], [name |-> "name"]>>, <<[name |-> "name"], [name |-> "id"]>>}
\* The result set of the execution: row 1 is the header, every row has its
\* own text, and a Datum is an Option<String> (None for a NULL).
Table ==
    <<  <<Some("id"), Some("name")>>,
        <<Some("1"), Some("alice")>>,
        <<Some("2"), Some("bob")>>,
        <<Some("3"), None>>,
        <<Some("4"), Some("dave")>>,
        <<None, Some("erin")>>,
        <<Some("6"), Some("fay")>>,
        <<Some("7"), None>>  >>
\* A Row: data is an Option<Vec<Datum>>.
Row(i) == [data |-> Some(Table[i])]
NoDataRow == [data |-> None]

\* QueryExecutionStatistics: the two complete sets the service reports, and
\* every way of leaving fields of them out.
StatProfiles == {<<1024, 50, 900>>, <<2048, 60, 950>>}
Statistics ==
    {[data_scanned_in_bytes |-> IF m[1] THEN Some(p[1]) ELSE None,
      query_queue_time_in_millis |-> IF m[2] THEN Some(p[2]) ELSE None,
      total_execution_time_in_millis |-> IF m[3] THEN Some(p[3]) ELSE None] :
        p \in StatProfiles, m \in BOOLEAN \X BOOLEAN \X BOOLEAN}

QueryExecutionStatus == [state : Opt(States), state_change_reason : Opt(Reasons)]

QueryExecution ==
    [query_execution_id : Opt(BodyIds),
     statistics : Opt(Statistics),
     status : Opt(QueryExecutionStatus)]

GetQueryExecutionOutput == [query_execution : Opt(QueryExecution)]

\* The next n rows of the result set after the `served` already sent; the
\* rows at the positions in `broken` come without data.
PageRows(served, n, broken) ==
    [i \in 1..n |-> IF i \in broken THEN NoDataRow ELSE Row(served + i)]

\* Pages the service can send when `served` rows went out and at most `left`
\* remain: any number of the rows left, at most one of them without data.
RowLists(served, left) ==
    {PageRows(served, n, {}) : n \in 0..left} \cup
    {PageRows(served, nb[1], {nb[2]}) :
        nb \in {x \in (1..left) \X (1..left) : x[2] <= x[1]}}

ResultSets(served, left) ==
    [result_set_metadata : Opt([column_info : Opt(ColumnLists)]),
     rows : Opt(RowLists(served, left))]

GetQueryResultsOutput(served, left, tokens) ==
    [next_token : tokens, result_set : Opt(ResultSets(served, left))]

VARIABLES
    pc,                 \* position in query: submit, poll, results, rows, returned, panicked
    ret,                \* what query handed to its caller
    query_execution_id, \* the id the submit response returned
    err_count,          \* transient-error counter of the poll loop
    slept,              \* total milliseconds spent in delay_for
    result,             \* the QueryResult under construction
    result_req,         \* the GetQueryResultsInput of the result loop
    rows_iter,          \* rows of the current page still to be appended
    next_token,         \* res.next_token of the current page
    requests,           \* history: every request sent to the service
    status,             \* history: outcome of the last get_query_execution
    pages,              \* history: every GetQueryResultsOutput received
    query,              \* the SQL text query was called with
    uuid_count,         \* uuids the process has drawn so far
    submitted,          \* history: query_string and token of every submit of the process
    run_pc,             \* position in run: none (query called directly), loop, call, done
    run_ret,            \* what run handed to its caller
    batch,              \* run's `queries` Vec as it was built
    queries             \* the iterator of run's for loop: statements still to run

callvars == <<pc, ret, query_execution_id, err_count, slept, result, result_req,
              rows_iter, next_token, requests, status, pages>>
runvars == <<run_pc, run_ret, batch, queries>>
vars == <<callvars, query, uuid_count, submitted, runvars>>

\* ----------------------------------------------------------- crate::Error
AthenaError == <<"AthenaError">>
QueryError == <<"QueryError">>
QueryCancelled == <<"QueryCancelled">>
QueryFailed(reason) == <<"QueryFailed", reason>>
\* impl From<RusotoError<GetQueryResultsError>> for Error
GetQueryResultsError == <<"GetQueryResultsError">>

\* What a call hands to its caller: Ok(QueryResult), Err(Error), or a panic
\* that unwinds through the caller.
Ok(v) == <<"Ok", v>>
Err(e) == <<"Err", e>>
Panicked(msg) == <<"Panic", msg>>

\* ------------------------------------------------------------ QueryResult
\* The struct literal of the SUCCEEDED arm.
NewQueryResult(id, bytes, queue, total) ==
    [query_execution_id |-> id,
     data_scanned_bytes |-> bytes,
     query_queue_time_ms |-> queue,
     total_execution_time_ms |-> total,
     rows |-> 0,
     columns |-> <<>>,
     data |-> <<>>]

\* append_row that forgets the counter.
append_row_uncounted(self, row) ==
    [self EXCEPT !.data = Append(@, row)]

append_row(self, row) ==
    [self EXCEPT !.data = Append(@, row), !.rows = @ + 1]

\* |field| field.var_char_value.unwrap_or_else(String::new), over one row
RowFields(data) ==
    [i \in 1..Len(data) |-> IF IsSome(data[i]) THEN Unwrap(data[i]) ELSE ""]

\* cols.into_iter().map(|c| c.name).collect()
ColumnNames(cols) == [i \in 1..Len(cols) |-> cols[i].name]

\* rows.into_iter().skip(n)
Skip(rows, n) == SubSeq(rows, n + 1, Len(rows))

\* ------------------------------------------- the match on the status response
\* First arm: id, all three statistics and the state present, state SUCCEEDED.
SucceededArm(res) ==
    /\ IsSome(res.query_execution)
    /\ LET qe == Unwrap(res.query_execution) IN
        /\ IsSome(qe.query_execution_id)
        /\ IsSome(qe.statistics)
        /\ IsSome(Unwrap(qe.statistics).data_scanned_in_bytes)
        /\ IsSome(Unwrap(qe.statistics).query_queue_time_in_millis)
        /\ IsSome(Unwrap(qe.statistics).total_execution_time_in_millis)
        /\ IsSome(qe.status)
        /\ IsSome(Unwrap(qe.status).state)
        /\ Unwrap(Unwrap(qe.status).state) = "SUCCEEDED"

\* Second arm: state and state_change_reason present, no guard.
ReasonArm(res) ==
    /\ IsSome(res.query_execution)
    /\ LET qe == Unwrap(res.query_execution) IN
        /\ IsSome(qe.status)
        /\ IsSome(Unwrap(qe.status).state)
        /\ IsSome(Unwrap(qe.status).state_change_reason)

\* Third arm: state present and RUNNING or QUEUED.
WaitingArm(res) ==
    /\ IsSome(res.query_execution)
    /\ LET qe == Unwrap(res.query_execution) IN
        /\ IsSome(qe.status)
        /\ IsSome(Unwrap(qe.status).state)
        /\ Unwrap(Unwrap(qe.status).state) \in {"RUNNING", "QUEUED"}

\* The arm the match takes: arms are tried in source order.
MatchArm(res) ==
    IF SucceededArm(res) THEN "succeeded"
    ELSE IF ReasonArm(res) THEN "reason"
    ELSE IF WaitingArm(res) THEN "waiting"
    ELSE "other"

\* The comparison off by one: gives up on the 5th failure.
OverBudgetEarly(count) == count >= RetryBudget

\* `if err_count > 5`: the retry budget is used up.
OverBudget(count) == count > RetryBudget

\* The inner match carrying the state where the reason belongs.
TerminalOutcomeState(state, reason) ==
    IF state = "FAILED" THEN Err(QueryFailed(state))
    ELSE IF state = "CANCELLED" THEN Err(QueryCancelled)
    ELSE Panicked("not implemented")

\* The inner match of the second arm, on state.as_str().
TerminalOutcome(state, reason) ==
    IF state = "FAILED" THEN Err(QueryFailed(reason))
    ELSE IF state = "CANCELLED" THEN Err(QueryCancelled)
    ELSE Panicked("not implemented")

\* ---------------------------------------------------------------- requests
StartQueryExecutionInput(tok) ==
    [op |-> "start_query_execution", query_execution_id |-> None, token |-> Some(tok)]
GetQueryExecutionInput(id) ==
    [op |-> "get_query_execution", query_execution_id |-> Some(id), token |-> None]
GetQueryResultsInput(id, tok) ==
    [op |-> "get_query_results", query_execution_id |-> Some(id), token |-> tok]

\* ------------------------------------------------------------------- Init
Init ==
    /\ pc = "submit"
    /\ ret = None
    /\ query_execution_id = None
    /\ err_count = 0
    /\ slept = 0
    /\ result = None
    /\ result_req = None
    /\ rows_iter = <<>>
    /\ next_token = None
    /\ requests = <<>>
    /\ status = None
    /\ pages = <<>>
    /\ query = "SELECT 1"
    /\ uuid_count = 0
    /\ submitted = <<>>
    /\ run_pc = "none"
    /\ run_ret = None
    /\ batch = <<>>
    /\ queries = <<>>

\* `return`/`?` and a panic both end the call.
Return(v) == pc' = "returned" /\ ret' = v
Panic(msg) == pc' = "panicked" /\ ret' = Panicked(msg)

\* A token drawn once and used for every submit.
ClientRequestTokenReused(n) == Uuids[1]

\* `client_request_token: Some(uuid::Uuid::new_v4().to_string())`: a fresh
\* uuid for every request built.
ClientRequestToken(n) == Uuids[n + 1]

\* A submit that is tried again when the remote call fails.
StartQueryExecutionRetrying ==
    /\ pc = "submit"
    /\ \E out \in {Err(None)} \cup {Ok(o) : o \in Opt(SubmitIds)} :
        /\ uuid_count' = uuid_count + 1
        /\ requests' = Append(requests,
                              StartQueryExecutionInput(ClientRequestToken(uuid_count)))
        /\ submitted' = Append(submitted,
                               [query_string |-> query,
                                client_request_token |-> ClientRequestToken(uuid_count)])
        /\ IF out[1] = "Err"
             THEN UNCHANGED <<pc, ret, query_execution_id, err_count>>
             ELSE IF ~IsSome(out[2])
               THEN /\ Panic("missing execution id")
                    /\ UNCHANGED <<query_execution_id, err_count>>
               ELSE /\ query_execution_id' = out[2]
                    /\ err_count' = 0
                    /\ pc' = "poll"
                    /\ ret' = ret
    /\ UNCHANGED <<slept, result, result_req, rows_iter, next_token, status, pages>>
    /\ UNCHANGED <<query, runvars>>

\* Lines 60-88: build the request, submit, take the execution id.
StartQueryExecution ==
    /\ pc = "submit"
    /\ \E out \in {Err(None)} \cup {Ok(o) : o \in Opt(SubmitIds)} :
        /\ uuid_count' = uuid_count + 1
        /\ requests' = Append(requests,
                              StartQueryExecutionInput(ClientRequestToken(uuid_count)))
        /\ submitted' = Append(submitted,
                               [query_string |-> query,
                                client_request_token |-> ClientRequestToken(uuid_count)])
        /\ IF out[1] = "Err"
             THEN /\ Return(Err(AthenaError))
                  /\ UNCHANGED <<query_execution_id, err_count>>
             ELSE IF ~IsSome(out[2])
               THEN /\ Panic("missing execution id")
                    /\ UNCHANGED <<query_execution_id, err_count>>
               ELSE /\ query_execution_id' = out[2]
                    /\ err_count' = 0
                    /\ pc' = "poll"
                    /\ ret' = ret
    /\ UNCHANGED <<slept, result, result_req, rows_iter, next_token, status, pages>>
    /\ UNCHANGED <<query, runvars>>

\* The limits the service keeps to: a query of a batch gets the smaller ones.
NonTerminalLimit == IF run_pc = "none" THEN MaxNonTerminal ELSE MaxRunNonTerminal
PageLimit == IF run_pc = "none" THEN MaxPages ELSE MaxRunPages
RowLimit == IF run_pc = "none" THEN MaxRows ELSE MaxRunRows

\* QUEUED/RUNNING responses taken so far: every response that kept the loop
\* going was one.
NonTerminalSeen == Len(requests) - 1 - err_count

\* What the service may answer to get_query_execution.
StatusOutcomes ==
    {Err(None)} \cup
    {Ok(r) : r \in {x \in GetQueryExecutionOutput :
                      MatchArm(x) = "waiting" => NonTerminalSeen < NonTerminalLimit}}

\* Lines 89-179: one iteration of the poll loop; on break, lines 182-186.
GetQueryExecution ==
    /\ pc = "poll"
    /\ \E out \in StatusOutcomes :
        /\ requests' = Append(requests, GetQueryExecutionInput(Unwrap(query_execution_id)))
        /\ status' = Some(out)
        /\ IF out[1] = "Err"
             THEN /\ err_count' = (err_count + 1) % U8Modulus
                  /\ IF OverBudget(err_count')
                       THEN Return(Err(AthenaError)) /\ slept' = slept
                       ELSE /\ slept' = slept + RetryDelayMs
                            /\ UNCHANGED <<pc, ret>>
                  /\ UNCHANGED <<result, result_req>>
             ELSE LET res == out[2]
                      arm == MatchArm(res)
                      qe == Unwrap(res.query_execution)
                  IN /\ err_count' = err_count
                     /\ CASE arm = "succeeded" ->
                               LET st == Unwrap(qe.statistics)
                                   r == NewQueryResult(
                                          Unwrap(qe.query_execution_id),
                                          Unwrap(st.data_scanned_in_bytes),
                                          Unwrap(st.query_queue_time_in_millis),
                                          Unwrap(st.total_execution_time_in_millis))
                               IN /\ result' = Some(r)
                                  /\ result_req' =
                                       Some([next_token |-> None,
                                             query_execution_id |-> r.query_execution_id])
                                  /\ pc' = "results"
                                  /\ UNCHANGED <<ret, slept>>
                          [] arm = "reason" ->
                               LET st == Unwrap(qe.status)
                                   state == Unwrap(st.state)
                                   reason == Unwrap(st.state_change_reason)
                                   end == TerminalOutcome(state, reason)
                               IN /\ IF end[1] = "Err" THEN Return(end) ELSE Panic(end[2])
                                  /\ UNCHANGED <<result, result_req, slept>>
                          [] arm = "waiting" ->
                               /\ slept' = slept + PollDelayMs
                               /\ UNCHANGED <<pc, ret, result, result_req>>
                          [] OTHER ->
                               /\ Return(Err(QueryError))
                               /\ UNCHANGED <<result, result_req, slept>>
    /\ UNCHANGED <<query_execution_id, rows_iter, next_token, pages>>
    /\ UNCHANGED <<query, uuid_count, submitted, runvars>>

\* Rows the service has already served for this execution, over all pages.
RECURSIVE RowsServed(_)
RowsServed(ps) ==
    IF ps = <<>> THEN 0
    ELSE LET rs == Head(ps).result_set
             n == IF IsSome(rs) /\ IsSome(Unwrap(rs).rows)
                    THEN Len(Unwrap(Unwrap(rs).rows)) ELSE 0
         IN n + RowsServed(Tail(ps))

\* What the service may answer to get_query_results: a page of the rows that
\* are left, with a continuation token only while more pages may follow.
ResultsOutcomes ==
    {Err(None)} \cup
    {Ok(r) : r \in GetQueryResultsOutput(
                     RowsServed(pages),
                     RowLimit - RowsServed(pages),
                     IF Len(pages) + 1 < PageLimit
                       THEN {None, Some(Tokens[Len(pages) + 1])} ELSE {None})}

\* Lines 189-200: request one page, unpack it, set the columns, skip the
\* first row; the rows left are appended one by one by AppendRow.
GetQueryResults ==
    /\ pc = "results"
    /\ \E out \in ResultsOutcomes :
        LET req == Unwrap(result_req) IN
        /\ requests' = Append(requests,
                              GetQueryResultsInput(req.query_execution_id, req.next_token))
        /\ IF out[1] = "Err"
             THEN /\ Return(Err(GetQueryResultsError))
                  /\ UNCHANGED <<result, rows_iter, next_token, pages>>
             ELSE LET res == out[2] IN
                  /\ pages' = Append(pages, res)
                  /\ next_token' = res.next_token
                  /\ IF ~IsSome(res.result_set)
                       THEN /\ Panic("result_set was none")
                            /\ UNCHANGED <<result, rows_iter>>
                       ELSE LET resultset == Unwrap(res.result_set) IN
                         IF ~IsSome(resultset.result_set_metadata)
                           THEN /\ Panic("missing result_set_metadata")
                                /\ UNCHANGED <<result, rows_iter>>
                           ELSE IF ~IsSome(Unwrap(resultset.result_set_metadata).column_info)
                             THEN /\ Panic("missing column_info")
                                  /\ UNCHANGED <<result, rows_iter>>
                             ELSE
                               LET cols == Unwrap(Unwrap(resultset.result_set_metadata).column_info) IN
                               /\ result' = Some([Unwrap(result) EXCEPT
                                                    !.columns = ColumnNames(cols)])
                               /\ IF ~IsSome(resultset.rows)
                                    THEN /\ Panic("missing result_set.rows")
                                         /\ rows_iter' = rows_iter
                                    ELSE /\ rows_iter' = Skip(Unwrap(resultset.rows), HeaderRows)
                                         /\ pc' = "rows"
                                         /\ ret' = ret
    /\ UNCHANGED <<query_execution_id, err_count, slept, result_req, status>>
    /\ UNCHANGED <<query, uuid_count, submitted, runvars>>

\* Lines 201-211: the closure of for_each, for the next row of the page.
AppendRow ==
    /\ pc = "rows"
    /\ rows_iter /= <<>>
    /\ LET row == Head(rows_iter) IN
        /\ rows_iter' = Tail(rows_iter)
        /\ IF ~IsSome(row.data)
             THEN /\ Panic("missing row.data")
                  /\ result' = result
             ELSE /\ result' = Some(append_row(Unwrap(result), RowFields(Unwrap(row.data))))
                  /\ UNCHANGED <<pc, ret>>
    /\ UNCHANGED <<query_execution_id, err_count, slept, result_req, next_token,
                   requests, status, pages>>
    /\ UNCHANGED <<query, uuid_count, submitted, runvars>>

\* An end of page that goes back to polling the status before the next page.
EndOfPageRepolling ==
    /\ pc = "rows"
    /\ rows_iter = <<>>
    /\ IF IsSome(next_token)
         THEN /\ result_req' = Some([Unwrap(result_req) EXCEPT !.next_token = next_token])
              /\ pc' = "poll"
              /\ ret' = ret
         ELSE /\ Return(Ok(Unwrap(result)))
              /\ result_req' = result_req
    /\ UNCHANGED <<query_execution_id, err_count, slept, result, rows_iter, next_token,
                   requests, status, pages>>
    /\ UNCHANGED <<query, uuid_count, submitted, runvars>>

\* An end of page that forgets to put the token into the next request.
EndOfPageKeepingRequest ==
    /\ pc = "rows"
    /\ rows_iter = <<>>
    /\ IF IsSome(next_token)
         THEN /\ result_req' = result_req
              /\ pc' = "results"
              /\ ret' = ret
         ELSE /\ Return(Ok(Unwrap(result)))
              /\ result_req' = result_req
    /\ UNCHANGED <<query_execution_id, err_count, slept, result, rows_iter, next_token,
                   requests, status, pages>>
    /\ UNCHANGED <<query, uuid_count, submitted, runvars>>

\* Lines 218-226: follow the continuation token, or break and return Ok(result).
EndOfPage ==
    /\ pc = "rows"
    /\ rows_iter = <<>>
    /\ IF IsSome(next_token)
         THEN /\ result_req' = Some([Unwrap(result_req) EXCEPT !.next_token = next_token])
              /\ pc' = "results"
              /\ ret' = ret
         ELSE /\ Return(Ok(Unwrap(result)))
              /\ result_req' = result_req
    /\ UNCHANGED <<query_execution_id, err_count, slept, result, rows_iter, next_token,
                   requests, status, pages>>
    /\ UNCHANGED <<query, uuid_count, submitted, runvars>>

Next ==
    \/ StartQueryExecution
    \/ GetQueryExecution
    \/ GetQueryResults
    \/ AppendRow
    \/ EndOfPage

Spec == Init /\ [][Next]_vars

\* ------------------------------------------------------------------ run()
\* lib.rs:78-94: run() has built its `queries`; no query has been called yet.
InitRun ==
    /\ pc = "idle"
    /\ ret = None
    /\ query_execution_id = None
    /\ err_count = 0
    /\ slept = 0
    /\ result = None
    /\ result_req = None
    /\ rows_iter = <<>>
    /\ next_token = None
    /\ requests = <<>>
    /\ status = None
    /\ pages = <<>>
    /\ query = ""
    /\ uuid_count = 0
    /\ submitted = <<>>
    /\ run_pc = "loop"
    /\ run_ret = None
    /\ batch \in Batches
    /\ queries = batch

\* lib.rs:102-103 and 135: the head of the for loop.  The next statement is
\* handed to athena.query, whose locals do not exist yet (err_count is the
\* one the model keeps until line 88 of query initialises it); when the
\* iterator is empty run returns Ok(()).
RunNext ==
    /\ run_pc = "loop"
    /\ IF queries = <<>>
         THEN /\ run_pc' = "done"
              /\ run_ret' = Ok(<<>>)
              /\ UNCHANGED <<queries, query, pc>>
         ELSE /\ query' = Head(queries)
              /\ queries' = Tail(queries)
              /\ run_pc' = "call"
              /\ pc' = "submit"
              /\ run_ret' = run_ret
    /\ UNCHANGED <<ret, query_execution_id, err_count, slept, result, result_req,
                   rows_iter, next_token, requests, status, pages>>
    /\ UNCHANGED <<uuid_count, submitted, batch>>

\* The locals of a finished call of query are dropped.
DropCall ==
    /\ pc' = "idle"
    /\ ret' = None
    /\ query_execution_id' = None
    /\ slept' = 0
    /\ result' = None
    /\ result_req' = None
    /\ rows_iter' = <<>>
    /\ next_token' = None
    /\ requests' = <<>>
    /\ status' = None
    /\ pages' = <<>>
    /\ err_count' = err_count

KeepCall ==
    UNCHANGED <<pc, ret, query_execution_id, err_count, slept, result, result_req,
                rows_iter, next_token, requests, status, pages>>

\* A match that logs the error of a query and goes on with the next statement.
RunMatchContinuing ==
    /\ run_pc = "call"
    /\ pc \in {"returned", "panicked"}
    /\ IF pc = "panicked"
         THEN run_pc' = "done" /\ run_ret' = ret /\ KeepCall
         ELSE IF ret[1] = "Err"
           THEN run_pc' = "loop" /\ run_ret' = run_ret /\ DropCall
           ELSE IF ret[2].rows = 0
             THEN run_pc' = "done" /\ run_ret' = Ok(<<>>) /\ KeepCall
             ELSE run_pc' = "loop" /\ run_ret' = run_ret /\ DropCall
    /\ UNCHANGED <<query, uuid_count, submitted, batch, queries>>

\* lib.rs:103-132: the match on what athena.query returned.  A panic unwinds
\* through run; Err(error) is returned by `Err(error)?`; a QueryResult with
\* no rows makes run return Ok(()) (line 113); any other is printed and the
\* loop goes on.
RunMatch ==
    /\ run_pc = "call"
    /\ pc \in {"returned", "panicked"}
    /\ IF pc = "panicked"
         THEN run_pc' = "done" /\ run_ret' = ret /\ KeepCall
         ELSE IF ret[1] = "Err"
           THEN run_pc' = "done" /\ run_ret' = ret /\ KeepCall
           ELSE IF ret[2].rows = 0
             THEN run_pc' = "done" /\ run_ret' = Ok(<<>>) /\ KeepCall
             ELSE run_pc' = "loop" /\ run_ret' = run_ret /\ DropCall
    /\ UNCHANGED <<query, uuid_count, submitted, batch, queries>>

NextRun ==
    \/ RunNext
    \/ StartQueryExecution
    \/ GetQueryExecution
    \/ GetQueryResults
    \/ AppendRow
    \/ EndOfPage
    \/ RunMatch

SpecRun == InitRun /\ [][NextRun]_vars

\* ======================================================================
\* Properties
\* ======================================================================

\* ------------------------------------------------------------ vocabulary
ReturnedOk == pc = "returned" /\ ret[1] = "Ok"
ReturnedErr(e) == pc = "returned" /\ ret[1] = "Err" /\ ret[2] = e
Ended == pc \in {"returned", "panicked"}

\* The last get_query_execution came back with a response (not a remote error).
GotStatus == status /= None /\ Unwrap(status)[1] = "Ok"
StatusRes == Unwrap(status)[2]

HasStatus(res) ==
    IsSome(res.query_execution) /\ IsSome(Unwrap(res.query_execution).status)
StateOf(res) == Unwrap(Unwrap(res.query_execution).status).state
ReasonOf(res) == Unwrap(Unwrap(res.query_execution).status).state_change_reason
StatsOf(res) == Unwrap(res.query_execution).statistics
StatsComplete(res) ==
    /\ IsSome(StatsOf(res))
    /\ IsSome(Unwrap(StatsOf(res)).data_scanned_in_bytes)
    /\ IsSome(Unwrap(StatsOf(res)).query_queue_time_in_millis)
    /\ IsSome(Unwrap(StatsOf(res)).total_execution_time_in_millis)

NoResultsRequest == \A i \in 1..Len(requests) : requests[i].op /= "get_query_results"

\* A page with every structural field present.
WellFormed(page) ==
    /\ IsSome(page.result_set)
    /\ LET rs == Unwrap(page.result_set) IN
        /\ IsSome(rs.result_set_metadata)
        /\ IsSome(Unwrap(rs.result_set_metadata).column_info)
        /\ IsSome(rs.rows)
        /\ \A i \in 1..Len(Unwrap(rs.rows)) : IsSome(Unwrap(rs.rows)[i].data)
AllWellFormed == \A i \in 1..Len(pages) : WellFormed(pages[i])

\* All rows of all pages, in page order and in within-page order.
RECURSIVE AllRows(_)
AllRows(ps) ==
    IF ps = <<>> THEN <<>>
    ELSE Unwrap(Unwrap(Head(ps).result_set).rows) \o AllRows(Tail(ps))

\* The field texts of the rows served, without the first row of the first page.
DataRows(ps) ==
    LET all == AllRows(ps) IN
    [i \in 1..(Len(all) - 1) |->
        LET d == Unwrap(all[i + 1].data) IN
        [j \in 1..Len(d) |-> IF d[j] = None THEN "" ELSE d[j][1]]]

\* ------------------------------------------------------------------- C1
\* C1: when query returns a QueryResult, its rows are the rows of all pages
\* served, in page order and in within-page order, without the first row of
\* the first page: no row of a later page is dropped.
C1_RowsAreAllPagesButHeader ==
    (ReturnedOk /\ AllWellFormed) => ret[2].data = DataRows(pages)

\* ------------------------------------------------------------------- C2
\* C2: the transient-error counter starts at 0 when the poll starts and is
\* never reset; each failed get_query_execution adds one to it; up to the
\* 5th failure the poller sleeps 250ms and stays in the poll loop, where a
\* response is still classified (QUEUED/RUNNING keeps polling with the
\* counter unchanged, SUCCEEDED with statistics goes on to the results); the
\* 6th failure returns Error::AthenaError, and a call that ended sends
\* nothing more.
C2_Step ==
    /\ (pc = "submit" /\ pc' = "poll") => err_count' = 0
    /\ (pc = "poll" /\ requests' /= requests) =>
         IF Unwrap(status')[1] = "Err"
           THEN /\ err_count' = err_count + 1
                /\ IF err_count' <= 5
                     THEN pc' = "poll" /\ slept' = slept + 250 /\ ret' = None
                     ELSE pc' = "returned" /\ ret' = <<"Err", <<"AthenaError">>>>
           ELSE /\ err_count' = err_count
                /\ LET res == Unwrap(status')[2] IN
                    /\ (HasStatus(res) /\ StateOf(res) = Some("SUCCEEDED")
                          /\ StatsComplete(res)
                          /\ IsSome(Unwrap(res.query_execution).query_execution_id))
                         => pc' = "results"
                    /\ (HasStatus(res) /\ StateOf(res) \in {Some("QUEUED"), Some("RUNNING")}
                          /\ ReasonOf(res) = None)
                         => pc' = "poll"
    /\ Ended => requests' = requests

\* C2: every step of query keeps to the transient-error budget described
\* above (counter from 0, never reset, 5 failures tolerated, the 6th fatal).
C2_TransientErrorBudget == [][C2_Step]_vars

\* Five failures were slept through with a QUEUED/RUNNING response among
\* them, and the sixth ended the call.
C2_Witness ==
    /\ ReturnedErr(AthenaError)
    /\ err_count = 6
    /\ slept >= 5 * 250 + 1000

\* ------------------------------------------------------------------- C3
\* C3: after a response with state FAILED and a reason text, query has
\* returned QueryFailed with exactly that text, and no get_query_results
\* request was sent.
C3_FailedReasonPassedThrough ==
    (GotStatus /\ HasStatus(StatusRes) /\ StateOf(StatusRes) = Some("FAILED")
       /\ IsSome(ReasonOf(StatusRes)))
    => /\ ReturnedErr(<<"QueryFailed", Unwrap(ReasonOf(StatusRes))>>)
       /\ NoResultsRequest

\* FAILED with reason "Y", in a response that also carries statistics.
C3_Witness ==
    /\ GotStatus /\ HasStatus(StatusRes)
    /\ StateOf(StatusRes) = Some("FAILED")
    /\ ReasonOf(StatusRes) = Some("Y")
    /\ StatsComplete(StatusRes)
    /\ ReturnedErr(<<"QueryFailed", "Y">>)

\* ------------------------------------------------------------------- C4
\* C4: after a response with state SUCCEEDED whose statistics are absent or
\* incomplete, query has returned the protocol error to its caller, whatever
\* else the response carries.
C4_SucceededWithoutStatsIsProtocolError ==
    (GotStatus /\ HasStatus(StatusRes) /\ StateOf(StatusRes) = Some("SUCCEEDED")
       /\ ~StatsComplete(StatusRes))
    => ReturnedErr(QueryError)

\* ------------------------------------------------------------------- C5
\* C5: after a response whose state is none of QUEUED, RUNNING, SUCCEEDED,
\* FAILED, CANCELLED, query has returned Error::QueryError to its caller,
\* with or without a state-change reason.
C5_UnknownStateIsProtocolError ==
    (GotStatus /\ HasStatus(StatusRes) /\ IsSome(StateOf(StatusRes))
       /\ Unwrap(StateOf(StatusRes)) \notin
            {"QUEUED", "RUNNING", "SUCCEEDED", "FAILED", "CANCELLED"})
    => ReturnedErr(QueryError)

\* ------------------------------------------------------------------- C6
\* C6: a submission that yields no execution id (remote error, or a response
\* without the id) has returned the submission error to the caller, and the
\* submit request is the only request sent.
C6_FailedSubmissionIsReturned ==
    (pc /= "submit" /\ query_execution_id = None)
    => ReturnedErr(AthenaError) /\ Len(requests) = 1

\* ------------------------------------------------------------------- C7
\* C7: a call that ended on a result page lacking a structural field has
\* returned an error value to its caller.
C7_MalformedPageIsProtocolError ==
    (Ended /\ pages /= <<>> /\ ~WellFormed(pages[Len(pages)]))
    => pc = "returned" /\ ret[1] = "Err"

\* ------------------------------------------------------------------- C8
\* C8: QueryResult.rows equals the length of QueryResult.data in every state:
\* 0 and empty at construction, after every append_row, after every page and
\* in the value returned.
C8_RowCountIsLength ==
    /\ result /= None => Unwrap(result).rows = Len(Unwrap(result).data)
    /\ (result /= None /\ pages = <<>>) =>
         Unwrap(result).rows = 0 /\ Unwrap(result).data = <<>>
    /\ ReturnedOk => ret[2].rows = Len(ret[2].data)

\* A QueryResult with two rows appended was returned.
C8_Witness == ReturnedOk /\ ret[2].rows = 2 /\ Len(ret[2].data) = 2

\* ------------------------------------------------------------------- C9
\* C9: nothing is sent before the submit; from then on the first request is
\* the one start_query_execution of the call and every other request is a
\* get_query_execution or a get_query_results.
C9_ExactlyOneSubmit ==
    /\ pc = "submit" => requests = <<>>
    /\ pc /= "submit" =>
        /\ Len(requests) >= 1
        /\ requests[1].op = "start_query_execution"
        /\ \A i \in 2..Len(requests) :
             requests[i].op \in {"get_query_execution", "get_query_results"}

\* A call that returned after a transient failure, a QUEUED/RUNNING poll and
\* two result pages.
C9_Witness ==
    /\ ReturnedOk
    /\ Len(pages) = 2
    /\ err_count >= 1
    /\ slept >= 1000 + 250

\* ------------------------------------------------------------------ C10
\* C10: the QueryResult returned carries the three statistics of the
\* SUCCEEDED response that ended the poll, the column names of the result
\* set in order, and as rows and row count the data rows served, without
\* the header.
C10_ResultCarriesStatsColumnsRows ==
    (ReturnedOk /\ AllWellFormed) =>
        LET st == Unwrap(StatsOf(StatusRes)) IN
        /\ ret[2].data_scanned_bytes = Unwrap(st.data_scanned_in_bytes)
        /\ ret[2].query_queue_time_ms = Unwrap(st.query_queue_time_in_millis)
        /\ ret[2].total_execution_time_ms = Unwrap(st.total_execution_time_in_millis)
        /\ \E i \in 1..Len(pages) :
             LET cols == Unwrap(Unwrap(Unwrap(pages[i].result_set).result_set_metadata).column_info)
             IN ret[2].columns = [j \in 1..Len(cols) |-> cols[j].name]
        /\ ret[2].data = DataRows(pages)
        /\ ret[2].rows = Len(DataRows(pages))

\* ------------------------------------------------------------ vocabulary
IsResultsRequest(r) == r.op = "get_query_results"
ResultsRequests == SelectSeq(requests, IsResultsRequest)

\* The state reported by the last get_query_execution response, if any.
LastState ==
    IF GotStatus /\ HasStatus(StatusRes) THEN StateOf(StatusRes) ELSE None

\* Milliseconds the poll should have slept by now: a second per
\* QUEUED/RUNNING response, 250ms per tolerated failure.
SleptFor(waits, failures) == waits * 1000 + failures * 250

\* ------------------------------------------------------------------ C13
\* C13: every get_query_execution and every get_query_results request
\* carries the execution id the submit response returned.
C13_RequestsCarrySubmitId ==
    \A i \in 1..Len(requests) :
        requests[i].op /= "start_query_execution"
          => requests[i].query_execution_id = query_execution_id

\* ------------------------------------------------------------------ C14
\* C14: after a response whose state is QUEUED or RUNNING, whatever else it
\* carries, the call has not ended: it is back in the poll loop, with one
\* second slept for each such response and none of them counted as an error.
C14_WaitingNeverEnds ==
    (LastState \in {Some("QUEUED"), Some("RUNNING")})
    => /\ pc = "poll"
       /\ ret = None
       /\ slept = SleptFor(Len(requests) - 1 - err_count, err_count)

\* ------------------------------------------------------------------ C15
\* C15: the columns of the QueryResult returned are the column names of the
\* first page, whatever the later pages list.
C15_ColumnsFromFirstPage ==
    (ReturnedOk /\ AllWellFormed) =>
        LET cols == Unwrap(Unwrap(Unwrap(pages[1].result_set).result_set_metadata).column_info)
        IN ret[2].columns = [j \in 1..Len(cols) |-> cols[j].name]

\* ------------------------------------------------------------------ C16
\* C16: while the responses are QUEUED/RUNNING or at most 5 failures the
\* poll goes on, and at SUCCEEDED with statistics it succeeds; k
\* QUEUED/RUNNING responses and t failures have then cost exactly
\* k * 1000ms + t * 250ms of sleep, nothing being slept after SUCCEEDED.
C16_PollSucceedsAndSleeps ==
    /\ (LastState \in {Some("QUEUED"), Some("RUNNING")}) =>
          /\ pc = "poll"
          /\ slept = SleptFor(Len(requests) - 1 - err_count, err_count)
    /\ (LastState = Some("SUCCEEDED") /\ StatsComplete(StatusRes)) =>
          /\ IsSome(result)
          /\ pc \in {"results", "rows", "returned"}
          /\ slept = SleptFor(Len(requests) - Len(ResultsRequests) - 2 - err_count,
                              err_count)

\* ------------------------------------------------------------------ C17
\* C17: the requests of a call are the submit, then get_query_execution
\* requests, then get_query_results requests, never mixed; and a
\* get_query_results request is only there once SUCCEEDED with statistics
\* was the answer of the last get_query_execution.
OpRank(op) ==
    IF op = "start_query_execution" THEN 1
    ELSE IF op = "get_query_execution" THEN 2
    ELSE 3

C17_SubmitThenPollThenPages ==
    /\ \A i, j \in 1..Len(requests) :
         i < j => OpRank(requests[i].op) <= OpRank(requests[j].op)
    /\ Len(ResultsRequests) > 0 =>
         /\ LastState = Some("SUCCEEDED")
         /\ StatsComplete(StatusRes)

\* Two get_query_results requests after a poll that took a failure and a
\* QUEUED/RUNNING response.
C17_Witness ==
    /\ Len(ResultsRequests) = 2
    /\ Len(requests) >= 6
    /\ err_count >= 1
    /\ pc = "rows"

\* ------------------------------------------------------------------ C18
\* C18: the first get_query_results request carries no token, each later one
\* the token of the page before it; a request follows a page only if that
\* page carried a token; a request that fails ends the call with an error
\* and is not sent again; a QueryResult is returned only on a page without a
\* token.
C18_TokensChainPages ==
    LET rr == ResultsRequests IN
    /\ \A j \in 1..Len(rr) :
         rr[j].token = IF j = 1 THEN None ELSE pages[j - 1].next_token
    /\ \A j \in 1..Len(pages) : j < Len(rr) => IsSome(pages[j].next_token)
    /\ Len(rr) \in {Len(pages), Len(pages) + 1}
    /\ Len(rr) = Len(pages) + 1 <=> ReturnedErr(<<"GetQueryResultsError">>)
    /\ ReturnedOk => pages[Len(pages)].next_token = None

\* The second page was asked for with the token of the first, and ended the
\* pagination by carrying none.
C18_Witness ==
    /\ ReturnedOk
    /\ Len(pages) = 2
    /\ pages[1].next_token = Some("T1")
    /\ ResultsRequests[2].token = Some("T1")

\* ------------------------------------------------------------------ C20
\* C20: once the service has answered get_query_execution with a terminal
\* state, a call that can take no further step (no poll and no page is left
\* to ask for) has returned a QueryResult or an error to its caller.
C20_EndsByReturning ==
    (LastState \in {Some("SUCCEEDED"), Some("FAILED"), Some("CANCELLED")}
       /\ ~ENABLED Next)
    => pc = "returned"

\* ------------------------------------------------------------ run: vocabulary
SubmittedSql == [i \in 1..Len(submitted) |-> submitted[i].query_string]
\* Statements the for loop of run has taken from its iterator.
CallsStarted == Len(batch) - Len(queries)
RunReturned(tag) == run_pc = "done" /\ run_ret[1] = tag
StatusRequests == SelectSeq(requests, LAMBDA r : r.op = "get_query_execution")

\* The rows the code makes of one page: every row but the first, each field
\* as text.
PageData(page) ==
    LET rows == Skip(Unwrap(Unwrap(page.result_set).rows), HeaderRows)
    IN [i \in 1..Len(rows) |-> RowFields(Unwrap(rows[i].data))]

RECURSIVE CallData(_)
CallData(ps) == IF ps = <<>> THEN <<>> ELSE PageData(Head(ps)) \o CallData(Tail(ps))

\* ------------------------------------------------------------------ C11
\* C11: run() executes the statements of its batch one at a time and in
\* order: the statements submitted so far are a prefix of the batch, the
\* next one is submitted only when the call before it has ended; and once a
\* call of query has returned an error, the next step of run is to return
\* that same error, with no further statement submitted.
C11_Ordered ==
    /\ SubmittedSql = SubSeq(batch, 1, Len(submitted))
    /\ queries = SubSeq(batch, CallsStarted + 1, Len(batch))
    /\ Len(submitted) = IF pc = "submit" THEN CallsStarted - 1 ELSE CallsStarted
    /\ run_pc = "done" =>
         /\ (pc = "returned" /\ ret[1] = "Err") <=> run_ret[1] = "Err"
         /\ run_ret[1] = "Err" => run_ret = ret

C11_Step ==
    /\ C11_Ordered'
    /\ (pc = "returned" /\ ret[1] = "Err") =>
          /\ submitted' = submitted
          /\ queries' = queries
          /\ run_pc' = "done"
          /\ run_ret' = ret

\* C11: the statements of a batch run in order, and the first error ends it.
C11_InOrderUntilFirstError == [][C11_Step]_vars

\* The first of two statements failed with the reason the service gave; run
\* returned that error and the second statement was never submitted.
C11_Witness ==
    /\ batch = <<"SELECT 1", "SELECT 2">>
    /\ RunReturned("Err")
    /\ run_ret = Err(QueryFailed("X"))
    /\ SubmittedSql = <<"SELECT 1">>
    /\ queries = <<"SELECT 2">>

\* ------------------------------------------------------------------ C12
\* C12: the submits of the calls of query carry pairwise different tokens,
\* also when their SQL text is the same; each call counts its own transient
\* errors from 0 (never more than the get_query_execution requests it sent
\* itself); and the QueryResult a call returns is made of the status
\* response and the pages of that call alone.
C12_CallsAreIndependent ==
    /\ \A i, j \in 1..Len(submitted) :
         i /= j => submitted[i].client_request_token /= submitted[j].client_request_token
    /\ pc \in {"submit", "idle"} =>
         /\ requests = <<>>
         /\ query_execution_id = None
         /\ result = None
    /\ requests /= <<>> =>
         /\ requests[1].op = "start_query_execution"
         /\ requests[1].token = Some(submitted[Len(submitted)].client_request_token)
    /\ IsSome(query_execution_id) =>
         /\ err_count <= Len(StatusRequests)
         /\ slept = SleptFor(Len(StatusRequests) - err_count
                               - (IF IsSome(result) THEN 1 ELSE 0)
                               - (IF Ended /\ ~IsSome(result) /\ GotStatus THEN 1 ELSE 0),
                             IF OverBudget(err_count) THEN RetryBudget ELSE err_count)
    /\ IsSome(result) =>
         /\ GotStatus
         /\ Some(Unwrap(result).query_execution_id)
              = Unwrap(StatusRes.query_execution).query_execution_id
         /\ Some(Unwrap(result).data_scanned_bytes)
              = Unwrap(StatsOf(StatusRes)).data_scanned_in_bytes
         /\ Some(Unwrap(result).total_execution_time_ms)
              = Unwrap(StatsOf(StatusRes)).total_execution_time_in_millis
    /\ ReturnedOk =>
         /\ ret[2] = Unwrap(result)
         /\ ret[2].data = CallData(pages)

\* The second of two calls with the same SQL text has returned rows of its
\* own, after a transient failure of its own.
C12_Witness ==
    /\ Len(submitted) = 2
    /\ submitted[1].query_string = submitted[2].query_string
    /\ ReturnedOk
    /\ ret[2].rows = 1
    /\ err_count = 1
    /\ slept = 250

\* ------------------------------------------------------------------ C19
\* C19: run() returns Ok only after the last statement of the batch has been
\* executed: a statement that succeeds, with rows or without, is followed by
\* the next one.
C19_OkOnlyAfterLastStatement ==
    RunReturned("Ok") =>
        /\ queries = <<>>
        /\ SubmittedSql = batch

====
